---- MODULE Spec2Model ----
(***************************************************************************)
(* Dietmate (src/dietmate_gui.py): the DietmateApp controller as a state   *)
(* machine.  The state is the controller's fields (profile, recipes,       *)
(* current_plan, the plan text box) together with what the handler that    *)
(* ran last showed, wrote and plotted.  One action per button handler.     *)
(*                                                                         *)
(* Strings the code only compares for equality (names, meal and diet tags, *)
(* day labels, message titles) are TLA+ strings.  Strings the code cuts,   *)
(* trims, lower-cases, searches or sorts (ingredients, the allergies       *)
(* field) are sequences of one-character strings.  Emoji of message titles *)
(* and of the export header are left out of the literals.                  *)
(*                                                                         *)
(* A recipe is a Python dict held by reference: RecipeHeap holds the       *)
(* recipe objects, the catalog and the plan hold references into it.       *)
(***************************************************************************)
EXTENDS Integers, Sequences, FiniteSets, TLC

VARIABLES
    profile,        \* self.profile: <<>> (the empty dict) or the saved dict
    recipes,        \* self.recipes: list of recipe references
    current_plan,   \* self.current_plan: NoPlan while the attribute is unset
    plan_box,       \* lines shown in self.plan_box
    last,           \* the handler that ran last ("init" after construction)
    msg,            \* title of the message box the last handler showed, "" if none
    filtered,       \* the local `filtered` of the last generate_plan, <<>> if not computed
    written,        \* lines the last handler wrote to the export file, <<>> if none
    chart           \* bars the last handler plotted: [days, calories]

vars == <<profile, recipes, current_plan, plan_box, last, msg, filtered, written, chart>>

----------------------------------------------------------------------------
(* Character strings                                                       *)

\* The characters that occur, in code point order (space, comma, A-Z, a-z).
Chars ==
    <<" ", ",", "A", "B", "C", "D", "E", "F", "G", "H", "I", "J", "K", "L", "M", "N", "O", "P", "Q", "R", "S", "T", "U", "V", "W", "X", "Y", "Z", "a", "b", "c", "d", "e", "f", "g", "h", "i", "j", "k", "l", "m", "n", "o", "p", "q", "r", "s", "t", "u", "v", "w", "x", "y", "z">>

CharSet == {Chars[i] : i \in 1..Len(Chars)}

\* ord(c), up to an order-preserving renumbering.
Ord == [c \in CharSet |-> CHOOSE i \in 1..Len(Chars) : Chars[i] = c]

FirstUpper == Ord["A"]

LastUpper == Ord["Z"]

CaseOffset == Ord["a"] - Ord["A"]

\* str.lower() on one character.
LowerChar(c) ==
    IF Ord[c] >= FirstUpper /\ Ord[c] <= LastUpper
    THEN Chars[Ord[c] + CaseOffset]
    ELSE c

\* str.lower()
Lower(s) == [i \in 1..Len(s) |-> LowerChar(s[i])]

IsSpace(c) == c = " "

RECURSIVE LStrip(_)
LStrip(s) ==
    IF s # <<>> /\ IsSpace(Head(s)) THEN LStrip(Tail(s)) ELSE s

RECURSIVE RStrip(_)
RStrip(s) ==
    IF s # <<>> /\ IsSpace(s[Len(s)]) THEN RStrip(SubSeq(s, 1, Len(s) - 1)) ELSE s

\* str.strip()
Strip(s) == RStrip(LStrip(s))

\* str.split(","): cut at every comma, empty pieces kept.
RECURSIVE SplitComma(_, _)
SplitComma(s, piece) ==
    IF s = <<>> THEN <<piece>>
    ELSE IF Head(s) = "," THEN <<piece>> \o SplitComma(Tail(s), <<>>)
    ELSE SplitComma(Tail(s), Append(piece, Head(s)))

Split(s) == SplitComma(s, <<>>)

\* ", ".join(parts)
RECURSIVE Join(_)
Join(parts) ==
    IF parts = <<>> THEN <<>>
    ELSE IF Len(parts) = 1 THEN parts[1]
    ELSE parts[1] \o <<",", " ">> \o Join(Tail(parts))

\* a in s, for strings
Contains(s, a) ==
    \E i \in 0..(Len(s) - Len(a)) : SubSeq(s, i + 1, i + Len(a)) = a

\* a < b in Python's string order (code points, a proper prefix first).
StrLess(a, b) ==
    \E i \in 1..(Len(b)) :
        /\ i <= Len(a) + 1
        /\ \A j \in 1..(i - 1) : a[j] = b[j]
        /\ \/ i = Len(a) + 1
           \/ i <= Len(a) /\ Ord[a[i]] < Ord[b[i]]

\* sorted(S) for a set of strings
RECURSIVE Sorted(_)
Sorted(S) ==
    IF S = {} THEN <<>>
    ELSE LET least == CHOOSE x \in S : \A y \in S \ {x} : StrLess(x, y)
         IN  <<least>> \o Sorted(S \ {least})

Range(s) == {s[i] : i \in 1..Len(s)}

----------------------------------------------------------------------------
(* Recipes                                                                 *)

SAMPLE_RECIPES ==
  <<
    [name |-> "Oatmeal Bowl", meal |-> "Breakfast", diet |-> "vegan",
     cal |-> 320, protein |-> 8, carbs |-> 45, fat |-> 9,
     ingredients |->
        << <<"O", "a", "t", "s">>,
           <<"B", "a", "n", "a", "n", "a">>,
           <<"A", "l", "m", "o", "n", "d", " ", "m", "i", "l", "k">> >>],
    [name |-> "Grilled Chicken Salad", meal |-> "Lunch", diet |-> "omnivore",
     cal |-> 420, protein |-> 38, carbs |-> 18, fat |-> 20,
     ingredients |->
        << <<"C", "h", "i", "c", "k", "e", "n">>,
           <<"L", "e", "t", "t", "u", "c", "e">>,
           <<"O", "l", "i", "v", "e", " ", "o", "i", "l">> >>],
    [name |-> "Veggie Stir Fry", meal |-> "Dinner", diet |-> "vegetarian",
     cal |-> 400, protein |-> 12, carbs |-> 55, fat |-> 14,
     ingredients |->
        << <<"R", "i", "c", "e">>,
           <<"B", "e", "l", "l", " ", "p", "e", "p", "p", "e", "r">>,
           <<"S", "o", "y", " ", "s", "a", "u", "c", "e">> >>],
    [name |-> "Smoothie", meal |-> "Snack", diet |-> "vegan",
     cal |-> 210, protein |-> 5, carbs |-> 35, fat |-> 6,
     ingredients |->
        << <<"B", "a", "n", "a", "n", "a">>,
           <<"S", "p", "i", "n", "a", "c", "h">>,
           <<"O", "a", "t", "s">>,
           <<"A", "l", "m", "o", "n", "d", " ", "m", "i", "l", "k">> >>],
    [name |-> "Paneer Wrap", meal |-> "Lunch", diet |-> "vegetarian",
     cal |-> 460, protein |-> 25, carbs |-> 40, fat |-> 18,
     ingredients |->
        << <<"P", "a", "n", "e", "e", "r">>,
           <<"T", "o", "r", "t", "i", "l", "l", "a">>,
           <<"C", "a", "b", "b", "a", "g", "e">> >>],
    [name |-> "Egg Scramble", meal |-> "Breakfast", diet |-> "omnivore",
     cal |-> 280, protein |-> 20, carbs |-> 5, fat |-> 18,
     ingredients |->
        << <<"E", "g", "g", "s">>,
           <<"T", "o", "m", "a", "t", "o">>,
           <<"S", "p", "i", "n", "a", "c", "h">> >>],
    [name |-> "Tofu Curry", meal |-> "Dinner", diet |-> "vegan",
     cal |-> 440, protein |-> 22, carbs |-> 30, fat |-> 16,
     ingredients |->
        << <<"T", "o", "f", "u">>,
           <<"C", "o", "c", "o", "n", "u", "t", " ", "m", "i", "l", "k">>,
           <<"C", "u", "r", "r", "y", " ", "p", "a", "s", "t", "e">> >>]
  >>

\* Recipes of a recipes.json that was placed by hand (load_data reads any).
FILE_RECIPES ==
  <<
    [name |-> "Fruit Cup", meal |-> "Snack", diet |-> "vegan",
     cal |-> 150, protein |-> 2, carbs |-> 30, fat |-> 1,
     ingredients |->
        << <<"b", "a", "n", "a", "n", "a">>,
           <<"B", "a", "n", "a", "n", "a">>,
           <<"O", "a", "t", "s">>,
           <<"b", "a", "n", "a", "n", "a">> >>],
    [name |-> "Peanut Toast", meal |-> "Breakfast", diet |-> "vegetarian",
     cal |-> 300, protein |-> 10, carbs |-> 30, fat |-> 15,
     ingredients |->
        << <<"B", "r", "e", "a", "d">>,
           <<"P", "E", "A", "N", "U", "T", " ", "b", "u", "t", "t", "e", "r">> >>],
    [name |-> "Nut Mix", meal |-> "Snack", diet |-> "omnivore",
     cal |-> 500, protein |-> 15, carbs |-> 20, fat |-> 40,
     ingredients |->
        << <<"W", "a", "l", "n", "u", "t">>,
           <<"H", "o", "n", "e", "y">> >>]
  >>

\* The recipe objects; a reference is an index into this sequence.
RecipeHeap == SAMPLE_RECIPES \o FILE_RECIPES

Deref(ref) == RecipeHeap[ref]

\* self.recipes = SAMPLE_RECIPES
SampleCatalog == [i \in 1..Len(SAMPLE_RECIPES) |-> i]

\* json.load of a recipes.json holding the first n FILE_RECIPES
FileCatalog(n) == [i \in 1..n |-> Len(SAMPLE_RECIPES) + i]

----------------------------------------------------------------------------
(* Inputs: what the user types into the form, what the files hold          *)

\* ""
A_none ==
    <<>>

\* "banana"
A_banana ==
    <<"b", "a", "n", "a", "n", "a">>

\* "tofu,oats,banana,spinach,almond"
A_vegan_all ==
    <<"t", "o", "f", "u", ",", "o", "a", "t", "s", ",", "b", "a", "n", "a", "n", "a", ",", "s", "p", "i", "n", "a", "c", "h", ",", "a", "l", "m", "o", "n", "d">>

\* "Egg, CHICKEN "
A_egg_chicken ==
    <<"E", "g", "g", ",", " ", "C", "H", "I", "C", "K", "E", "N", " ">>

\* "Paneer,Egg,Tofu"
A_paneer_egg_tofu ==
    <<"P", "a", "n", "e", "e", "r", ",", "E", "g", "g", ",", "T", "o", "f", "u">>

\* " , "
A_blank ==
    <<" ", ",", " ">>

\* "nut"
A_nut ==
    <<"n", "u", "t">>

\* " NUT,"
A_NUT ==
    <<" ", "N", "U", "T", ",">>

\* "Milk,soy"
A_milk_soy ==
    <<"M", "i", "l", "k", ",", "s", "o", "y">>

\* The dict save_profile builds.  Only the two fields generate_plan reads are
\* kept; the other seven (name, age, sex, weight, height, activity, goal) are
\* stored and never read again.
ProfileDict(diet_type, allergies) ==
    [diet_type |-> diet_type, allergies |-> allergies]

\* self.profile = {}
EmptyDict == [k \in {} |-> ""]

\* Forms the user saves in the session model.  A form is paired with every
\* catalog, so each is one whose filtered set leaves at most one meal slot a
\* choice of two: a drawn plan is a state, and the plans number the product
\* of the choices over all 28 cells.
ProfileInputs ==
    { ProfileDict("vegan", A_vegan_all),
      ProfileDict("omnivore", A_egg_chicken),
      ProfileDict("omnivore", A_paneer_egg_tofu),
      ProfileDict("", A_none) }

\* Catalogs recipes.json may hold at start-up in the session model.
CatalogInputs == { <<>>, FileCatalog(1), SampleCatalog }

\* Forms and catalogs the filter is applied to in the filter model.
DietInputs == {"omnivore", "vegetarian", "vegan", ""}

AllergyInputs ==
    { A_none, A_banana, A_vegan_all, A_egg_chicken, A_paneer_egg_tofu,
      A_blank, A_nut, A_NUT, A_milk_soy }

\* How many recipes the hand-placed recipes.json holds at most.
MaxFileRecipes == 2

FilterCatalogInputs ==
    { FileCatalog(n) : n \in 0..MaxFileRecipes }
        \cup { SampleCatalog, SampleCatalog \o FileCatalog(MaxFileRecipes) }

----------------------------------------------------------------------------
(* generate_plan                                                           *)

\* dict.get(key, default)
ProfileGet(p, key, default) ==
    IF key \in DOMAIN p THEN p[key] ELSE default

\* [a.strip().lower() for a in allergies.split(",") if a.strip()]
AllergyTokens(p) ==
    LET parts == Split(ProfileGet(p, "allergies", <<>>))
        kept  == SelectSeq(parts, LAMBDA a : Strip(a) # <<>>)
    IN  [i \in 1..Len(kept) |-> Lower(Strip(kept[i]))]

\* Variant: the omnivore clause forgotten.
DietMatchesExact(r, diet) ==
    Deref(r).diet = diet

\* Variant: a vegetarian profile also accepts vegan-tagged recipes.
DietMatchesInclusive(r, diet) ==
    \/ Deref(r).diet = diet
    \/ diet = "omnivore"
    \/ diet = "vegetarian" /\ Deref(r).diet = "vegan"

\* r["diet"] == diet or diet == "omnivore"
DietMatches(r, diet) ==
    Deref(r).diet = diet \/ diet = "omnivore"

\* Variant: all(...) in place of any(...).
HasEveryAllergen(r, allergies) ==
    \A i \in 1..Len(allergies) :
        Contains(Lower(Join(Deref(r).ingredients)), allergies[i])

\* any(a in (", ".join(r["ingredients"])).lower() for a in allergies)
HasAllergen(r, allergies) ==
    \E i \in 1..Len(allergies) :
        Contains(Lower(Join(Deref(r).ingredients)), allergies[i])

\* the two list comprehensions that build `filtered`
FilterRecipes(p, rcps) ==
    LET diet      == ProfileGet(p, "diet_type", "omnivore")
        allergies == AllergyTokens(p)
        byDiet    == SelectSeq(rcps, LAMBDA r : DietMatches(r, diet))
    IN  IF allergies # <<>>
        THEN SelectSeq(byDiet, LAMBDA r : ~HasAllergen(r, allergies))
        ELSE byDiet

\* Variant: `and` in place of `or`.
MissingInfoBoth(p, rcps) ==
    DOMAIN p = {} /\ rcps = <<>>

\* not self.profile or not self.recipes
MissingInfo(p, rcps) ==
    DOMAIN p = {} \/ rcps = <<>>

meals == <<"Breakfast", "Lunch", "Snack", "Dinner">>

NumDays == 7

\* Variant: range(1, 7).
DaysShort == 1..(NumDays - 1)

\* range(1, 8)
Days == 1..NumDays

\* f"Day {day}"
DayLabel(day) == "Day " \o ToString(day)

\* random.choice(seq): any element
RandomChoice(seq) == Range(seq)

\* Variant: the comprehension tests the first meal of the list, not the
\* current one.
SlotChoicesStaleMeal(flt, meal) ==
    LET choices == SelectSeq(flt, LAMBDA r : Deref(r).meal = meals[1])
    IN  IF choices # <<>> THEN RandomChoice(choices) ELSE RandomChoice(flt)

\* random.choice(choices) if choices else random.choice(filtered)
SlotChoices(flt, meal) ==
    LET choices == SelectSeq(flt, LAMBDA r : Deref(r).meal = meal)
    IN  IF choices # <<>> THEN RandomChoice(choices) ELSE RandomChoice(flt)

\* the inner dict of one day: one draw per meal
DayChoices(flt) ==
    LET slot == [m \in Range(meals) |-> SlotChoices(flt, m)]
        any  == UNION { slot[m] : m \in Range(meals) }
    IN  { d : d \in { c \in [Range(meals) -> any] :
                        \A m \in Range(meals) : c[m] \in slot[m] } }

\* the dicts the two loops can build; a dict is the sequence of its items in
\* insertion order
PlanChoices(flt) ==
    LET oneDay == DayChoices(flt)
    IN  { [day \in Days |-> [key |-> DayLabel(day), value |-> ch[day]]] :
            ch \in [Days -> oneDay] }

NoPlan == <<>>

NoChart == [days |-> <<>>, calories |-> <<>>]

\* f"  {meal}: {info['name']} ({info['cal']} kcal)\n"
MealLine ==
    [meal \in Range(meals), r \in 1..Len(RecipeHeap) |->
        "  " \o meal \o ": " \o Deref(r).name
             \o " (" \o ToString(Deref(r).cal) \o " kcal)"]

\* the lines show_plan inserts: per day its label, its four meals, a blank line
RECURSIVE PlanLines(_)
PlanLines(plan) ==
    IF plan = <<>> THEN <<>>
    ELSE <<plan[1].key>>
         \o [i \in 1..Len(meals) |-> MealLine[meals[i], plan[1].value[meals[i]]]]
         \o <<"">>
         \o PlanLines(Tail(plan))

\* the handler's outputs when it shows, writes and plots nothing
Quiet ==
    /\ filtered' = <<>>
    /\ written' = <<>>
    /\ chart' = NoChart

GenerateMissing ==
    /\ MissingInfo(profile, recipes)
    /\ last' = "generate_plan"
    /\ msg' = "Missing Info"
    /\ Quiet
    /\ UNCHANGED <<profile, recipes, current_plan, plan_box>>

\* Variant: the display and the current plan are cleared before the error.
GenerateNoRecipesClearsPlan ==
    /\ ~MissingInfo(profile, recipes)
    /\ FilterRecipes(profile, recipes) = <<>>
    /\ last' = "generate_plan"
    /\ msg' = "No Recipes"
    /\ Quiet
    /\ current_plan' = NoPlan
    /\ plan_box' = <<>>
    /\ UNCHANGED <<profile, recipes>>

GenerateNoRecipes ==
    /\ ~MissingInfo(profile, recipes)
    /\ FilterRecipes(profile, recipes) = <<>>
    /\ last' = "generate_plan"
    /\ msg' = "No Recipes"
    /\ Quiet
    /\ UNCHANGED <<profile, recipes, current_plan, plan_box>>

\* show_plan(plan)
ShowPlan(plan) ==
    /\ plan_box' = PlanLines(plan)
    /\ current_plan' = plan

\* generate_plan up to the point where `filtered` is known to be non-empty
Candidates(flt) ==
    /\ ~MissingInfo(profile, recipes)
    /\ flt # <<>>
    /\ last' = "generate_plan"
    /\ msg' = ""
    /\ filtered' = flt
    /\ written' = <<>>
    /\ chart' = NoChart
    /\ UNCHANGED <<profile, recipes>>

GenerateOk ==
    LET flt == FilterRecipes(profile, recipes)
    IN  /\ Candidates(flt)
        /\ \E plan \in PlanChoices(flt) : ShowPlan(plan)

GeneratePlan ==
    \/ GenerateMissing
    \/ GenerateNoRecipes
    \/ GenerateOk

----------------------------------------------------------------------------
(* save_profile, load_sample_recipes                                       *)

SaveProfile ==
    /\ \E p \in ProfileInputs : profile' = p
    /\ last' = "save_profile"
    /\ msg' = "Saved"
    /\ Quiet
    /\ UNCHANGED <<recipes, current_plan, plan_box>>

\* Variant: loading the samples drops the plan drawn from the old catalog.
LoadSampleRecipesClearsPlan ==
    /\ recipes' = SampleCatalog
    /\ last' = "load_sample_recipes"
    /\ msg' = "Loaded"
    /\ Quiet
    /\ current_plan' = NoPlan
    /\ plan_box' = <<>>
    /\ UNCHANGED profile

LoadSampleRecipes ==
    /\ recipes' = SampleCatalog
    /\ last' = "load_sample_recipes"
    /\ msg' = "Loaded"
    /\ Quiet
    /\ UNCHANGED <<profile, current_plan, plan_box>>

----------------------------------------------------------------------------
(* export_shopping_list, show_chart                                        *)

HEADER ==
    <<"D", "i", "e", "t", "m", "a", "t", "e", " ", "S", "h", "o", "p", "p", "i", "n", "g", " ", "L", "i", "s", "t">>

RULE ==
    <<"-", "-", "-", "-", "-", "-", "-", "-", "-", "-", "-", "-", "-", "-", "-", "-", "-", "-", "-", "-", "-", "-", "-", "-">>

\* the "• " that starts an item line; the bullet character is written "*"
BULLET == <<"*", " ">>

\* Variant: duplicates removed without regard to case.
PlanIngredientsFolded(plan) ==
    UNION { { Lower(s) : s \in Range(Deref(plan[t[1]].value[t[2]]).ingredients) } :
              t \in (1..Len(plan)) \X Range(meals) }

\* items.extend(meal["ingredients"]) over every day and meal, as a set
PlanIngredients(plan) ==
    UNION { Range(Deref(plan[t[1]].value[t[2]]).ingredients) :
              t \in (1..Len(plan)) \X Range(meals) }

\* sorted(set(items))
ShoppingItems(plan) == Sorted(PlanIngredients(plan))

\* the lines written to the chosen file
ShoppingFile(items) ==
    <<HEADER, RULE>> \o [i \in 1..Len(items) |-> BULLET \o items[i]]

ExportNoPlan ==
    /\ current_plan = NoPlan
    /\ last' = "export_shopping_list"
    /\ msg' = "No Plan"
    /\ Quiet
    /\ UNCHANGED <<profile, recipes, current_plan, plan_box>>

\* asksaveasfilename returned "": nothing is written
ExportCancelled ==
    /\ current_plan # NoPlan
    /\ last' = "export_shopping_list"
    /\ msg' = ""
    /\ Quiet
    /\ UNCHANGED <<profile, recipes, current_plan, plan_box>>

ExportWritten ==
    /\ current_plan # NoPlan
    /\ last' = "export_shopping_list"
    /\ msg' = "Exported"
    /\ written' = ShoppingFile(ShoppingItems(current_plan))
    /\ filtered' = <<>>
    /\ chart' = NoChart
    /\ UNCHANGED <<profile, recipes, current_plan, plan_box>>

ExportShoppingList ==
    \/ ExportNoPlan
    \/ ExportCancelled
    \/ ExportWritten

\* Variant: a recipe that fills several slots of the day is counted once.
RECURSIVE SumCalDistinct(_, _)
SumCalDistinct(day, slots) ==
    IF slots = <<>> THEN 0
    ELSE (IF \E i \in 2..Len(slots) : day[slots[i]] = day[Head(slots)]
          THEN 0 ELSE Deref(day[Head(slots)]).cal)
         + SumCalDistinct(day, Tail(slots))

\* sum(m["cal"] for m in meals.values())
RECURSIVE SumCal(_, _)
SumCal(day, slots) ==
    IF slots = <<>> THEN 0
    ELSE Deref(day[Head(slots)]).cal + SumCal(day, Tail(slots))

\* the two lists built from self.current_plan.items()
CalorieBars(plan) ==
    [days     |-> [i \in 1..Len(plan) |-> plan[i].key],
     calories |-> [i \in 1..Len(plan) |-> SumCal(plan[i].value, meals)]]

ChartNoPlan ==
    /\ current_plan = NoPlan
    /\ last' = "show_chart"
    /\ msg' = "No Plan"
    /\ Quiet
    /\ UNCHANGED <<profile, recipes, current_plan, plan_box>>

ChartDrawn ==
    /\ current_plan # NoPlan
    /\ last' = "show_chart"
    /\ msg' = ""
    /\ chart' = CalorieBars(current_plan)
    /\ filtered' = <<>>
    /\ written' = <<>>
    /\ UNCHANGED <<profile, recipes, current_plan, plan_box>>

ShowChart ==
    \/ ChartNoPlan
    \/ ChartDrawn

----------------------------------------------------------------------------
(* The session: __init__ with load_data, then the button handlers          *)

Init ==
    /\ profile \in {EmptyDict} \cup ProfileInputs
    /\ recipes \in CatalogInputs
    /\ current_plan = NoPlan
    /\ plan_box = <<>>
    /\ last = "init"
    /\ msg = ""
    /\ filtered = <<>>
    /\ written = <<>>
    /\ chart = NoChart

Next ==
    \/ SaveProfile
    \/ LoadSampleRecipes
    \/ GeneratePlan
    \/ ExportShoppingList
    \/ ShowChart

Spec == Init /\ [][Next]_vars

----------------------------------------------------------------------------
(* The filter alone: generate_plan applied once to a form and a catalog,   *)
(* followed up to the point where `filtered` is fixed (before the draw).   *)

FilterCandidates ==
    /\ Candidates(FilterRecipes(profile, recipes))
    /\ UNCHANGED <<current_plan, plan_box>>

InitFilter ==
    /\ profile \in {EmptyDict}
           \cup { ProfileDict(d, a) : d \in DietInputs, a \in AllergyInputs }
    /\ recipes \in FilterCatalogInputs
    /\ current_plan = NoPlan
    /\ plan_box = <<>>
    /\ last = "init"
    /\ msg = ""
    /\ filtered = <<>>
    /\ written = <<>>
    /\ chart = NoChart

NextFilter ==
    \/ GenerateMissing
    \/ GenerateNoRecipes
    \/ FilterCandidates

SpecFilter == InitFilter /\ [][NextFilter]_vars

----------------------------------------------------------------------------
(* The generator alone: generate_plan applied once, the draw included, to  *)
(* a form and a catalog.                                                   *)

GenerateInputs ==
    ProfileInputs
        \cup { ProfileDict("vegan", A_none), ProfileDict("vegetarian", A_none) }

InitGenerate ==
    /\ profile \in {EmptyDict} \cup GenerateInputs
    /\ recipes \in CatalogInputs
    /\ current_plan = NoPlan
    /\ plan_box = <<>>
    /\ last = "init"
    /\ msg = ""
    /\ filtered = <<>>
    /\ written = <<>>
    /\ chart = NoChart

NextGenerate ==
    \/ last = "init" /\ GenerateMissing
    \/ last = "init" /\ GenerateNoRecipes
    \/ last = "init" /\ GenerateOk

SpecGenerate == InitGenerate /\ [][NextGenerate]_vars

----------------------------------------------------------------------------
(* Properties                                                              *)

\* the last handler was generate_plan and it got past both checks
Generated == last = "generate_plan" /\ msg = ""

DietOf(p) == IF "diet_type" \in DOMAIN p THEN p.diet_type ELSE "omnivore"

\* the lower-cased joined ingredient string of a recipe
Haystack(r) == Lower(Join(RecipeHeap[r].ingredients))

\* some token of the list occurs in the recipe's ingredient string
Hit(r, tokens) == \E i \in 1..Len(tokens) : Contains(Haystack(r), tokens[i])

SevenLabels == <<"Day 1", "Day 2", "Day 3", "Day 4", "Day 5", "Day 6", "Day 7">>

FourSlots == {"Breakfast", "Lunch", "Snack", "Dinner"}

\* a complete 7x4 plan
WellFormed(plan) ==
    /\ Len(plan) = 7
    /\ \A d \in 1..7 :
        /\ plan[d].key = SevenLabels[d]
        /\ DOMAIN plan[d].value = FourSlots
        /\ \A m \in FourSlots : plan[d].value[m] \in 1..Len(RecipeHeap)

Names(refs) == [i \in 1..Len(refs) |-> RecipeHeap[refs[i]].name]

(* C1: every successful generate_plan yields a plan whose keys are exactly
   "Day 1" .. "Day 7" in that order, each day mapping exactly Breakfast,
   Lunch, Snack and Dinner to one recipe, and each of the 28 recipes is in
   the filtered set: it is in the catalog, it passes the diet test and it
   contains no allergy token. *)
C1_PlanShape ==
    Generated =>
        /\ WellFormed(current_plan)
        /\ \A d \in 1..7 : \A m \in FourSlots :
            LET r == current_plan[d].value[m]
            IN  /\ r \in Range(filtered)
                /\ r \in Range(recipes)
                /\ RecipeHeap[r].diet = DietOf(profile) \/ DietOf(profile) = "omnivore"
                /\ ~Hit(r, AllergyTokens(profile))

C1_Witness ==
    /\ Generated
    /\ Len(current_plan) = 7
    /\ Len(filtered) < Len(recipes)
    /\ Len(filtered) > 1

(* C2 as stated: for an omnivore profile the filtered set equals the full
   catalog. *)
C2_Original ==
    (Generated /\ DietOf(profile) = "omnivore") => filtered = recipes

(* C2 amended: for an omnivore profile the diet test removes nothing: the
   filtered set is the catalog, in catalog order, without the recipes that
   contain an allergy token; it is the full catalog when the token list is
   empty, and when it would be empty the handler reports "No Recipes". *)
C2_OmnivoreKeepsAll ==
    (last = "generate_plan" /\ msg # "Missing Info" /\ DietOf(profile) = "omnivore") =>
        LET tokens == AllergyTokens(profile)
            kept   == SelectSeq(recipes, LAMBDA r : ~Hit(r, tokens))
        IN  /\ msg = "" => filtered = kept
            /\ msg = "No Recipes" <=> kept = <<>>
            /\ tokens = <<>> => filtered = recipes

C2_Witness ==
    /\ Generated
    /\ DietOf(profile) = "omnivore"
    /\ profile.allergies = A_none
    /\ recipes = SampleCatalog
    /\ filtered = recipes
    /\ \E i \in 1..Len(filtered) : RecipeHeap[filtered[i]].diet = "vegan"

(* C3: for a profile whose diet_type is not "omnivore", every recipe of the
   filtered set carries exactly that diet tag; with no allergy token the
   filtered set is exactly the catalog's recipes with that tag; the sample
   recipes with "vegan" and no allergies give Oatmeal Bowl, Smoothie, Tofu
   Curry. *)
C3_ExactDietTag ==
    (last = "generate_plan" /\ msg # "Missing Info" /\ DietOf(profile) # "omnivore") =>
        LET tagged == SelectSeq(recipes, LAMBDA r : RecipeHeap[r].diet = profile.diet_type)
        IN  /\ \A i \in 1..Len(filtered) :
                RecipeHeap[filtered[i]].diet = profile.diet_type
            /\ AllergyTokens(profile) = <<>> =>
                /\ msg = "" => filtered = tagged
                /\ msg = "No Recipes" <=> tagged = <<>>
            /\ (profile.diet_type = "vegan" /\ profile.allergies = A_none
                    /\ recipes = SampleCatalog) =>
                Names(filtered) = <<"Oatmeal Bowl", "Smoothie", "Tofu Curry">>

C3_Witness ==
    /\ Generated
    /\ profile.diet_type = "vegan"
    /\ profile.allergies = A_none
    /\ recipes = SampleCatalog
    /\ Len(filtered) = 3

(* C4: with a non-empty allergy token list (the allergies field cut at
   commas, each piece trimmed and lower-cased, empty pieces dropped), a
   catalog recipe is in the filtered set exactly when it passes the diet
   test and its lower-cased joined ingredients contain no token; "banana"
   for an omnivore over the sample recipes removes exactly Oatmeal Bowl and
   Smoothie; " NUT," removes Tofu Curry (Coconut milk). *)
C4_AllergyFilter ==
    (last = "generate_plan" /\ msg # "Missing Info" /\ AllergyTokens(profile) # <<>>) =>
        LET tokens == AllergyTokens(profile)
            diet   == profile.diet_type
        IN  /\ \A i \in 1..Len(tokens) :
                /\ tokens[i] # <<>>
                /\ \A j \in 1..Len(tokens[i]) :
                    tokens[i][j] # "," /\ Ord[tokens[i][j]] \notin Ord["A"]..Ord["Z"]
                /\ tokens[i][1] # " " /\ tokens[i][Len(tokens[i])] # " "
            /\ \A r \in Range(recipes) :
                r \in Range(filtered) <=>
                    /\ RecipeHeap[r].diet = diet \/ diet = "omnivore"
                    /\ \A i \in 1..Len(tokens) : ~Contains(Haystack(r), tokens[i])
            /\ msg = "No Recipes" <=> filtered = <<>>
            /\ (diet = "omnivore" /\ profile.allergies = A_banana
                    /\ recipes = SampleCatalog) =>
                Names(filtered) = <<"Grilled Chicken Salad", "Veggie Stir Fry",
                                    "Paneer Wrap", "Egg Scramble", "Tofu Curry">>
            /\ (profile.allergies = A_NUT /\ recipes = SampleCatalog) =>
                7 \notin Range(filtered)
            /\ profile.allergies = A_egg_chicken =>
                tokens = << <<"e", "g", "g">>, <<"c", "h", "i", "c", "k", "e", "n">> >>

C4_Witness ==
    /\ Generated
    /\ profile.diet_type = "omnivore"
    /\ profile.allergies = A_banana
    /\ recipes = SampleCatalog
    /\ Len(filtered) = 5

(* C5: when the profile is saved and the catalog is non-empty but no recipe
   passes the diet test without containing an allergy token, generate_plan
   shows "No Recipes" and leaves the current plan and the plan display as
   they were. *)
C5_NoMatchingRecipes ==
    [][ ( /\ last' = "generate_plan"
          /\ DOMAIN profile # {}
          /\ Len(recipes) > 0
          /\ \A r \in Range(recipes) :
                \/ ~(RecipeHeap[r].diet = DietOf(profile) \/ DietOf(profile) = "omnivore")
                \/ Hit(r, AllergyTokens(profile)) )
        => ( /\ msg' = "No Recipes"
             /\ current_plan' = current_plan
             /\ plan_box' = plan_box ) ]_vars

C5_Witness ==
    /\ last = "generate_plan"
    /\ msg = "No Recipes"
    /\ profile.diet_type = "vegan"
    /\ profile.allergies = A_vegan_all
    /\ recipes = SampleCatalog
    /\ current_plan # NoPlan

(* C6: generate_plan shows "Missing Info" exactly when the profile is the
   empty dict or the catalog is empty; it then computes no filtered set and
   leaves profile, catalog, current plan and plan display unchanged. *)
C6_MissingPrerequisite ==
    [][ last' = "generate_plan" =>
          /\ msg' = "Missing Info" <=> (DOMAIN profile = {} \/ Len(recipes) = 0)
          /\ msg' = "Missing Info" =>
                /\ msg' # "No Recipes"
                /\ filtered' = <<>>
                /\ profile' = profile
                /\ recipes' = recipes
                /\ current_plan' = current_plan
                /\ plan_box' = plan_box ]_vars

C6_Witness ==
    /\ last = "generate_plan"
    /\ msg = "Missing Info"
    /\ DOMAIN profile # {}
    /\ recipes = <<>>

(* C7: in a successful generate_plan, each of the 28 cells holds a recipe
   with the slot's meal tag when the filtered set has one, and otherwise a
   recipe of the filtered set, whatever its tag. *)
C7_SlotChoice ==
    Generated =>
        \A d \in 1..Len(current_plan) : \A m \in FourSlots :
            LET tagged == { r \in Range(filtered) : RecipeHeap[r].meal = m }
                r      == current_plan[d].value[m]
            IN  IF tagged # {} THEN r \in tagged ELSE r \in Range(filtered)

\* The fallback slot (Lunch, no vegan lunch in the sample) holds each of the
\* three filtered recipes on some day, one recipe twice within a day and on
\* several days.
C7_Witness ==
    /\ Generated
    /\ recipes = SampleCatalog
    /\ filtered = <<1, 4, 7>>
    /\ current_plan[1].value["Lunch"] = 1
    /\ current_plan[1].value["Breakfast"] = 1
    /\ current_plan[2].value["Lunch"] = 4
    /\ current_plan[3].value["Lunch"] = 7
    /\ current_plan[4].value["Lunch"] = 7

(* C8: show_chart on the current plan plots one bar per day, labelled
   "Day 1" .. "Day 7" in that order, each the sum of the calories of the
   day's four meals, a recipe counted once per slot it fills; a day of 320,
   420, 210 and 400 gives 1350. *)
C8_CalorieBars ==
    (last = "show_chart" /\ current_plan # NoPlan) =>
        /\ msg = ""
        /\ chart.days = SevenLabels
        /\ Len(chart.calories) = 7
        /\ \A d \in 1..7 :
            LET day == current_plan[d].value
            IN  /\ chart.calories[d] =
                      RecipeHeap[day["Breakfast"]].cal + RecipeHeap[day["Lunch"]].cal
                        + RecipeHeap[day["Snack"]].cal + RecipeHeap[day["Dinner"]].cal
                /\ ( /\ RecipeHeap[day["Breakfast"]].cal = 320
                     /\ RecipeHeap[day["Lunch"]].cal = 420
                     /\ RecipeHeap[day["Snack"]].cal = 210
                     /\ RecipeHeap[day["Dinner"]].cal = 400 )
                   => chart.calories[d] = 1350

C8_Witness ==
    /\ last = "show_chart"
    /\ current_plan # NoPlan
    /\ current_plan[1].value =
          [Breakfast |-> 1, Lunch |-> 2, Snack |-> 4, Dinner |-> 3]
    /\ chart.calories[1] = 1350

\* the ingredient strings of the bullet lines of the export file
WrittenItems == [i \in 1..(Len(written) - 2) |-> SubSeq(written[i + 2], 3, Len(written[i + 2]))]

(* C9: the exported shopping list holds exactly the ingredient strings of
   the recipes in the 28 slots, each once (strings differing in case are
   different), in ascending order; export does not change the plan and a
   second export of the same plan writes the same list. *)
C9_ShoppingList ==
    /\ []( (last = "export_shopping_list" /\ msg = "Exported") =>
            /\ Len(written) >= 2
            /\ written[1] = HEADER
            /\ written[2] = RULE
            /\ \A i \in 3..Len(written) : SubSeq(written[i], 1, 2) = BULLET
            /\ Range(WrittenItems) =
                  { s \in UNION { Range(RecipeHeap[r].ingredients) : r \in 1..Len(RecipeHeap) } :
                      \E d \in 1..7 : \E m \in FourSlots :
                          s \in Range(RecipeHeap[current_plan[d].value[m]].ingredients) }
            /\ \A i \in 1..Len(WrittenItems) : \A j \in 1..Len(WrittenItems) :
                  i < j => StrLess(WrittenItems[i], WrittenItems[j])
            /\ (\A d \in 1..7 : \A m \in FourSlots : current_plan[d].value[m] = 8) =>
                  WrittenItems = << <<"B", "a", "n", "a", "n", "a">>,
                                    <<"O", "a", "t", "s">>,
                                    <<"b", "a", "n", "a", "n", "a">> >> )
    /\ [][ last' = "export_shopping_list" => current_plan' = current_plan ]_vars
    /\ [][ ( /\ last = "export_shopping_list" /\ msg = "Exported"
             /\ last' = "export_shopping_list" /\ msg' = "Exported" )
           => written' = written ]_vars

C9_Witness ==
    /\ last = "export_shopping_list"
    /\ msg = "Exported"
    /\ Len(written) > 10
    /\ \E d \in 1..7 : current_plan[d].value["Dinner"] = 7

(* C10: the current plan is absent until a generate_plan succeeds; it
   changes only in a successful generate_plan, which sets it to a complete
   7x4 plan; every other handler and a failed generate_plan leave it as it
   was; while it is absent, export_shopping_list and show_chart show
   "No Plan", write no file and plot nothing. *)
C10_CurrentPlan ==
    /\ [](current_plan # NoPlan => WellFormed(current_plan))
    /\ [][ current_plan' # current_plan =>
              /\ last' = "generate_plan"
              /\ msg' = ""
              /\ WellFormed(current_plan') ]_vars
    /\ [][ (last' = "generate_plan" /\ msg' = "") => WellFormed(current_plan') ]_vars
    /\ []( (last \in {"export_shopping_list", "show_chart"} /\ current_plan = NoPlan) =>
              /\ msg = "No Plan"
              /\ written = <<>>
              /\ chart = NoChart )
    /\ []( msg = "No Plan" => current_plan = NoPlan )

\* a plan drawn from the hand-placed catalog is still current after the
\* catalog was replaced by the samples
C10_Witness ==
    /\ last = "load_sample_recipes"
    /\ recipes = SampleCatalog
    /\ current_plan # NoPlan
    /\ current_plan[1].value["Snack"] = 8

====
